---- MODULE Spec2Model ----
(***************************************************************************)
(* A model of the httprouter package: CleanPath (path.go), Params.ByName   *)
(* and the Router's Handle / Lookup / ServeHTTP (router.go).               *)
(*                                                                         *)
(* Strings are sequences of one-character strings, so Go's p[i] is         *)
(* p[i+1] here.  Every Go index expression is modelled together with its   *)
(* bounds check: an index outside the string or slice sets a panic flag.   *)
(***************************************************************************)
EXTENDS Integers, Sequences, FiniteSets, TLC

\* ------------------------------------------------------------------ bounds
\* Longest generated input of CleanPath.
MaxLen == 6
\* Longest Params sequence handed to ByName.
MaxParams == 3
\* Largest number of routes registered in one run.
MaxRoutes == 2

\* ------------------------------------------------------------- path.go
\* The bytes the generated inputs are made of.
Alphabet == {"/", ".", "a", "b"}

\* The zero byte a freshly made []byte holds.
NUL == "NUL"

\* Go's bounds check of s[i].
InBounds(s, i) == i >= 0 /\ i < Len(s)

\* s[i]; OOB when the index is out of range (the caller turns that into a panic).
Rd(s, i) == IF InBounds(s, i) THEN s[i + 1] ELSE "OOB"

\* make([]byte, k)
MakeBytes(k) == [i \in 1..k |-> NUL]

\* copy(dst, s[:w]) for w <= Len(s), w <= Len(dst)
CopyPrefix(dst, s, w) == [i \in 1..Len(dst) |-> IF i <= w THEN s[i] ELSE dst[i]]

\* The nil slice, and an allocated one.
NilBuf == [isNil |-> TRUE, bytes |-> <<>>]
Slice(b) == [isNil |-> FALSE, bytes |-> b]

\* A plausible slip in bufApp: the lazy buffer is never created, the byte is dropped.
bufAppNeverAllocates(buf, s, w, c) ==
    IF buf.isNil
    THEN [buf |-> buf, panic |-> ~InBounds(s, w)]
    ELSE IF ~InBounds(buf.bytes, w)
         THEN [buf |-> buf, panic |-> TRUE]
         ELSE [buf |-> Slice([buf.bytes EXCEPT ![w + 1] = c]), panic |-> FALSE]

\* A plausible slip in bufApp: the buffer is created on the first write.
bufAppAlwaysAllocates(buf, s, w, c) ==
    IF buf.isNil
    THEN IF ~InBounds(s, w)
         THEN [buf |-> buf, panic |-> TRUE]
         ELSE [buf |-> Slice([CopyPrefix(MakeBytes(Len(s)), s, w) EXCEPT ![w + 1] = c]),
               panic |-> FALSE]
    ELSE IF ~InBounds(buf.bytes, w)
         THEN [buf |-> buf, panic |-> TRUE]
         ELSE [buf |-> Slice([buf.bytes EXCEPT ![w + 1] = c]), panic |-> FALSE]

\* bufApp(&buf, s, w, c): the buffer after the call, and whether an index failed.
bufApp(buf, s, w, c) ==
    IF buf.isNil
    THEN IF ~InBounds(s, w)
         THEN [buf |-> buf, panic |-> TRUE]
         ELSE IF s[w + 1] = c
              THEN [buf |-> buf, panic |-> FALSE]
              ELSE [buf |-> Slice([CopyPrefix(MakeBytes(Len(s)), s, w) EXCEPT ![w + 1] = c]),
                    panic |-> FALSE]
    ELSE IF ~InBounds(buf.bytes, w)
         THEN [buf |-> buf, panic |-> TRUE]
         ELSE [buf |-> Slice([buf.bytes EXCEPT ![w + 1] = c]), panic |-> FALSE]

\* The locals of CleanPath after the prologue (lines 17-33).
CleanInit(p) ==
    LET n == Len(p) IN
    [r        |-> IF p[1] # "/" THEN 0 ELSE 1,
     w        |-> 1,
     buf      |-> IF p[1] # "/"
                  THEN Slice([MakeBytes(n + 1) EXCEPT ![1] = "/"])
                  ELSE NilBuf,
     trailing |-> n > 1 /\ p[n] = "/",
     panic    |-> FALSE]

\* A plausible slip: the lone '.' at the end is not recognised.
IsDotLastNever(p, r) == FALSE

\* case p[r] == '.' && r+1 == n
IsDotLast(p, r) == p[r + 1] = "." /\ r + 1 = Len(p)

\* case p[r] == '.' && p[r+1] == '/': "yes", "no", or "panic" on a bad index.
IsDotSlash(p, r) ==
    IF p[r + 1] # "." THEN "no"
    ELSE IF ~InBounds(p, r + 1) THEN "panic"
    ELSE IF p[r + 2] = "/" THEN "yes" ELSE "no"

\* case p[r] == '.' && p[r+1] == '.' && (r+2 == n || p[r+2] == '/')
IsDotDot(p, r) ==
    IF p[r + 1] # "." THEN "no"
    ELSE IF ~InBounds(p, r + 1) THEN "panic"
    ELSE IF p[r + 2] # "." THEN "no"
    ELSE IF r + 2 = Len(p) THEN "yes"
    ELSE IF ~InBounds(p, r + 2) THEN "panic"
    ELSE IF p[r + 3] = "/" THEN "yes" ELSE "no"

\* for w > 1 && s[w] != '/' { w-- }
RECURSIVE BackTo(_, _)
BackTo(s, w) ==
    IF w > 1
    THEN IF ~InBounds(s, w) THEN [w |-> w, panic |-> TRUE]
         ELSE IF s[w + 1] # "/" THEN BackTo(s, w - 1)
         ELSE [w |-> w, panic |-> FALSE]
    ELSE [w |-> w, panic |-> FALSE]

\* A plausible slip: '..' drops nothing.
BacktrackNothing(p, st) == [st EXCEPT !.r = st.r + 3]

\* The '..' element (lines 53-68).
Backtrack(p, st) ==
    IF st.w > 1
    THEN LET b == BackTo(IF st.buf.isNil THEN p ELSE st.buf.bytes, st.w - 1) IN
         [st EXCEPT !.r = st.r + 3, !.w = b.w, !.panic = b.panic]
    ELSE [st EXCEPT !.r = st.r + 3]

\* for r < n && p[r] != '/' { bufApp(&buf, p, w, p[r]); w++; r++ }
RECURSIVE CopyElement(_, _)
CopyElement(p, st) ==
    IF st.r < Len(p) /\ p[st.r + 1] # "/"
    THEN LET a == bufApp(st.buf, p, st.w, p[st.r + 1]) IN
         IF a.panic
         THEN [st EXCEPT !.panic = TRUE]
         ELSE CopyElement(p, [st EXCEPT !.buf = a.buf, !.w = st.w + 1, !.r = st.r + 1])
    ELSE st

\* The default case: a real path element (lines 73-83).
RealElement(p, st) ==
    IF st.w > 1
    THEN LET a == bufApp(st.buf, p, st.w, "/") IN
         IF a.panic
         THEN [st EXCEPT !.panic = TRUE]
         ELSE CopyElement(p, [st EXCEPT !.buf = a.buf, !.w = st.w + 1])
    ELSE CopyElement(p, st)

\* One turn of the switch (lines 38-84), for r < n.
CleanStep(p, st) ==
    IF p[st.r + 1] = "/" THEN [st EXCEPT !.r = st.r + 1]
    ELSE IF IsDotLast(p, st.r) THEN [st EXCEPT !.trailing = TRUE, !.r = st.r + 1]
    ELSE IF IsDotSlash(p, st.r) = "panic" THEN [st EXCEPT !.panic = TRUE]
    ELSE IF IsDotSlash(p, st.r) = "yes" THEN [st EXCEPT !.r = st.r + 2]
    ELSE IF IsDotDot(p, st.r) = "panic" THEN [st EXCEPT !.panic = TRUE]
    ELSE IF IsDotDot(p, st.r) = "yes" THEN Backtrack(p, st)
    ELSE RealElement(p, st)

\* for r < n { switch ... }
RECURSIVE CleanLoop(_, _)
CleanLoop(p, st) ==
    IF st.panic \/ st.r >= Len(p) THEN st ELSE CleanLoop(p, CleanStep(p, st))

\* if trailing && w > 1 { bufApp(&buf, p, w, '/'); w++ }
TrailingSlash(p, st) ==
    IF st.panic \/ ~(st.trailing /\ st.w > 1) THEN st
    ELSE LET a == bufApp(st.buf, p, st.w, "/") IN
         IF a.panic THEN [st EXCEPT !.panic = TRUE]
         ELSE [st EXCEPT !.buf = a.buf, !.w = st.w + 1]

\* What a call that died of an index out of range hands back.
Panicked == <<"panic">>

\* The return (lines 93-97): p[:w] or string(buf[:w]).
CleanReturn(p, st) ==
    LET src == IF st.buf.isNil THEN p ELSE st.buf.bytes
        bad == st.panic \/ st.w > Len(src)
    IN [out    |-> IF bad THEN Panicked ELSE SubSeq(src, 1, st.w),
        panic  |-> bad,
        bufNil |-> st.buf.isNil,
        w      |-> st.w]

\* CleanPath(p) with its observable locals at return.
CleanRun(p) ==
    IF p = <<>>
    THEN [out |-> <<"/">>, panic |-> FALSE, bufNil |-> TRUE, w |-> 1]
    ELSE CleanReturn(p, TrailingSlash(p, CleanLoop(p, CleanInit(p))))

\* CleanPath(p)
CleanPath(p) == CleanRun(p).out

\* ------------------------------------------------------------ router.go
\* A plausible slip: the scan keeps going and the last match wins.
RECURSIVE ByNameLastFrom(_, _, _, _)
ByNameLastFrom(ps, name, i, acc) ==
    IF i >= Len(ps) THEN acc
    ELSE ByNameLastFrom(ps, name, i + 1,
                        IF ps[i + 1].Key = name THEN ps[i + 1].Value ELSE acc)
ByNameLast(ps, name) == ByNameLastFrom(ps, name, 0, "")

\* for i := range ps { if ps[i].Key == name { return ps[i].Value } }; return ""
RECURSIVE ByNameFrom(_, _, _)
ByNameFrom(ps, name, i) ==
    IF i >= Len(ps) THEN ""
    ELSE IF ps[i + 1].Key = name THEN ps[i + 1].Value
    ELSE ByNameFrom(ps, name, i + 1)

\* Params.ByName(name)
ByName(ps, name) == ByNameFrom(ps, name, 0)

\* Handle: a route handler is named by the registration that installed it; the nil
\* func is NilHandle.
NilHandle == "nil"

\* Param / Params of a lookup that captured nothing.
NilParams == <<>>

\* ---- the route tree (tree.go): a node, as the routes registered beneath it.
\* A *node that is nil, and new(node).
NilNode == [isNil |-> TRUE, routes |-> {}]
NewNode == [isNil |-> FALSE, routes |-> {}]

\* node.addRoute(path, handle): the node after the call, and whether it panicked
\* (a handler is already registered for the path).
addRoute(n, rpath, handle) ==
    IF \E rt \in n.routes : rt.path = rpath
    THEN [node |-> n, panic |-> TRUE]
    ELSE [node |-> [n EXCEPT !.routes = @ \cup {[path |-> rpath, handle |-> handle]}],
          panic |-> FALSE]

\* The path that differs from p by its trailing slash only.
OtherSlash(p) ==
    IF Len(p) > 1 /\ p[Len(p)] = "/" THEN SubSeq(p, 1, Len(p) - 1) ELSE p \o <<"/">>

\* node.getValue(path): the handler of the route that is exactly path; without one,
\* tsr tells that the path with its trailing slash toggled is a route.
getValue(n, rpath) ==
    IF \E rt \in n.routes : rt.path = rpath
    THEN [handle |-> (CHOOSE rt \in n.routes : rt.path = rpath).handle,
          ps |-> NilParams, tsr |-> FALSE]
    ELSE [handle |-> NilHandle, ps |-> NilParams,
          tsr |-> \E rt \in n.routes : rt.path = OtherSlash(rpath)]

\* Case folding of one byte and of a path.
Lower(c) == IF c = "A" THEN "a" ELSE IF c = "B" THEN "b" ELSE c
LowerPath(p) == [i \in 1..Len(p) |-> Lower(p[i])]

\* node.findCaseInsensitivePath(path, fixTrailingSlash): a route equal to path up
\* to case, in the tree's own casing; failing that and when allowed, one equal to
\* path with its trailing slash toggled.
findCaseInsensitivePath(n, rpath, fixTrailingSlash) ==
    LET same == {rt \in n.routes : LowerPath(rt.path) = LowerPath(rpath)}
        near == {rt \in n.routes : LowerPath(rt.path) = LowerPath(OtherSlash(rpath))}
    IN IF same # {}
       THEN [path |-> (CHOOSE rt \in same : TRUE).path, found |-> TRUE]
       ELSE IF fixTrailingSlash /\ near # {}
            THEN [path |-> (CHOOSE rt \in near : TRUE).path, found |-> TRUE]
            ELSE [path |-> <<>>, found |-> FALSE]

\* ---- Router
\* Router.trees: the nil map, and a map from methods to root nodes.
NilTrees == [isNil |-> TRUE, m |-> <<>>]

\* New(): every switch on.
New ==
    [RedirectTrailingSlash |-> TRUE, RedirectFixedPath |-> TRUE,
     HandleMethodNotAllowed |-> TRUE, HandleOPTIONS |-> TRUE]

\* r.trees[method]: nil for the nil map and for a missing key.
TreeOf(t, method) ==
    IF ~t.isNil /\ method \in DOMAIN t.m THEN t.m[method] ELSE NilNode

\* The keys of r.trees, as range visits them.
TreeMethods(t) == IF t.isNil THEN {} ELSE DOMAIN t.m

\* r.trees[method] = root
PutTree(t, method, root) ==
    [isNil |-> FALSE,
     m |-> [k \in TreeMethods(t) \cup {method} |-> IF k = method THEN root ELSE t.m[k]]]

\* A plausible slip: the tree is installed before the path is checked.
HandleChecksLate(t, method, rpath, handle) ==
    LET root == IF TreeOf(t, method).isNil THEN NewNode ELSE TreeOf(t, method) IN
    IF Rd(rpath, 0) # "/"
    THEN [trees |-> PutTree(t, method, root), panic |-> TRUE]
    ELSE LET a == addRoute(root, rpath, handle) IN
         [trees |-> PutTree(t, method, a.node), panic |-> a.panic]

\* Router.Handle(method, path, handle): the map after the call and whether the
\* call panicked.  path[0] of the empty path is an index out of range.
Handle(t, method, rpath, handle) ==
    IF Rd(rpath, 0) # "/"
    THEN [trees |-> t, panic |-> TRUE]
    ELSE LET root == IF TreeOf(t, method).isNil THEN NewNode ELSE TreeOf(t, method)
             a == addRoute(root, rpath, handle)
         IN [trees |-> PutTree(t, method, a.node), panic |-> a.panic]

\* A plausible slip: Lookup installs a tree for a method it does not know, as
\* Handle does.
LookupCreates(t, method, rpath) ==
    LET root == IF TreeOf(t, method).isNil THEN NewNode ELSE TreeOf(t, method)
        v == getValue(root, rpath)
    IN [handle |-> v.handle, ps |-> v.ps, tsr |-> v.tsr,
        trees |-> PutTree(t, method, root)]

\* Router.Lookup(method, path), with the map as the call leaves it.
Lookup(t, method, rpath) ==
    IF ~TreeOf(t, method).isNil
    THEN LET v == getValue(TreeOf(t, method), rpath) IN
         [handle |-> v.handle, ps |-> v.ps, tsr |-> v.tsr, trees |-> t]
    ELSE [handle |-> NilHandle, ps |-> NilParams, tsr |-> FALSE, trees |-> t]

\* A plausible slip: OPTIONS is listed like any other method.
allowedCountsOptions(t, rpath, reqMethod) ==
    LET ms == IF rpath = <<"*">>
              THEN TreeMethods(t)
              ELSE {k \in TreeMethods(t) :
                      k # reqMethod /\ getValue(t.m[k], rpath).handle # NilHandle}
    IN IF ms # {} THEN ms \cup {"OPTIONS"} ELSE {}

\* Router.allowed(path, reqMethod): the methods of the Allow list (the list's
\* order is that of Go's map iteration and is not kept).
allowed(t, rpath, reqMethod) ==
    LET ms == IF rpath = <<"*">>
              THEN {k \in TreeMethods(t) : k # "OPTIONS"}
              ELSE {k \in TreeMethods(t) :
                      /\ ~(k = reqMethod \/ k = "OPTIONS")
                      /\ getValue(t.m[k], rpath).handle # NilHandle}
    IN IF ms # {} THEN ms \cup {"OPTIONS"} ELSE {}

\* What ServeHTTP did: the branch that answered, the route handler it invoked with
\* its params, the redirect it sent, the Allow header, and whether the
\* case-insensitive lookup was called on the way.
Answer(kind, handle, ps, code, location, allow, fallback) ==
    [kind |-> kind, handle |-> handle, ps |-> ps, code |-> code,
     location |-> location, allow |-> allow, fallback |-> fallback]

\* handle(w, req, ps)
Served(v) == Answer("handler", v.handle, v.ps, 200, <<>>, {}, FALSE)

\* http.Redirect(w, req, req.URL.String(), code)
Redirected(location, code, fallback) ==
    Answer("redirect", NilHandle, NilParams, code, location, {}, fallback)

\* A plausible slip: every redirect is permanent.
RedirectCodeAlwaysPermanent(method) == 301

\* code := 301; if req.Method != "GET" { code = 307 }
RedirectCode(method) == IF method # "GET" THEN 307 ELSE 301

\* The path with its trailing slash removed or added (lines 277-281).
ToggleTrailingSlash(rpath) ==
    IF Len(rpath) > 1 /\ rpath[Len(rpath)] = "/"
    THEN SubSeq(rpath, 1, Len(rpath) - 1)
    ELSE rpath \o <<"/">>

\* A plausible slip: OPTIONS requests take the 405 branch like the others.
NotServedIgnoresOptions(t, cfg, method, rpath, fallback) ==
    IF cfg.HandleMethodNotAllowed /\ allowed(t, rpath, method) # {}
    THEN Answer("405", NilHandle, NilParams, 405, <<>>, allowed(t, rpath, method), fallback)
    ELSE Answer("404", NilHandle, NilParams, 404, <<>>, {}, fallback)

\* The end of ServeHTTP (lines 303-332): the automatic OPTIONS answer, Method Not
\* Allowed, Not Found.  NotFound and MethodNotAllowed are nil, as New() leaves them.
NotServed(t, cfg, method, rpath, fallback) ==
    IF method = "OPTIONS" /\ cfg.HandleOPTIONS
    THEN IF allowed(t, rpath, method) # {}
         THEN Answer("allow", NilHandle, NilParams, 200, <<>>,
                     allowed(t, rpath, method), fallback)
         ELSE Answer("404", NilHandle, NilParams, 404, <<>>, {}, fallback)
    ELSE IF cfg.HandleMethodNotAllowed /\ allowed(t, rpath, method) # {}
         THEN Answer("405", NilHandle, NilParams, 405, <<>>,
                     allowed(t, rpath, method), fallback)
         ELSE Answer("404", NilHandle, NilParams, 404, <<>>, {}, fallback)

\* A plausible slip: the path the fallback found is served at once.
FixedPathServes(t, cfg, method, rpath) ==
    LET root == TreeOf(t, method)
        f == findCaseInsensitivePath(root, CleanPath(rpath), cfg.RedirectTrailingSlash)
    IN IF f.found
       THEN Answer("handler", getValue(root, f.path).handle, NilParams, 200, <<>>, {}, TRUE)
       ELSE NotServed(t, cfg, method, rpath, TRUE)

\* if r.RedirectFixedPath { ... } (lines 289-299), for a root that is not nil.
FixedPath(t, cfg, method, rpath) ==
    LET root == TreeOf(t, method)
        f == findCaseInsensitivePath(root, CleanPath(rpath), cfg.RedirectTrailingSlash)
    IN IF f.found
       THEN Redirected(f.path, RedirectCode(method), TRUE)
       ELSE NotServed(t, cfg, method, rpath, TRUE)

\* Router.ServeHTTP(w, req) for req.Method and req.URL.Path; PanicHandler is nil.
ServeHTTP(t, cfg, method, rpath) ==
    LET root == TreeOf(t, method) IN
    IF ~root.isNil
    THEN LET v == getValue(root, rpath) IN
         IF v.handle # NilHandle
         THEN Served(v)
         ELSE IF method # "CONNECT" /\ rpath # <<"/">>
              THEN IF v.tsr /\ cfg.RedirectTrailingSlash
                   THEN Redirected(ToggleTrailingSlash(rpath), RedirectCode(method), FALSE)
                   ELSE IF cfg.RedirectFixedPath
                        THEN FixedPath(t, cfg, method, rpath)
                        ELSE NotServed(t, cfg, method, rpath, FALSE)
              ELSE NotServed(t, cfg, method, rpath, FALSE)
    ELSE NotServed(t, cfg, method, rpath, FALSE)

\* ---------------------------------------------------------------- state
VARIABLES
    path,      \* the string handed to CleanPath
    cleaned,   \* the results of CleanPath(path), CleanPath(CleanPath(path))
    params,    \* a Params value
    name,      \* the name asked of it
    found,     \* the results of params.ByName(name)
    trees,     \* Router.trees
    config,    \* the Router's four switches
    call,      \* the last call made on the Router, with its arguments
    ret        \* what that call returned or answered

vars == <<path, cleaned, params, name, found, trees, config, call, ret>>

\* ------------------------------------------------------- CleanPath runs
\* The four inputs the specification names.
ExEmpty == <<>>
ExDots == <<"/", "a", "/", ".", "/", "b", "/", ".", ".", "/", "c">>
ExSlashes == <<"/", "/", "a", "/", "/", "b", "/">>
ExAboveRoot == <<"/", ".", ".", "/", ".", ".", "/", "x">>

\* Every string over Alphabet of at most MaxLen bytes, and the named inputs.
CleanInputs ==
    UNION {[1..k -> Alphabet] : k \in 0..MaxLen}
        \cup {ExEmpty, ExDots, ExSlashes, ExAboveRoot}

NoCall == [op |-> "none", method |-> "", path |-> <<>>]
NoRet == [panic |-> FALSE]

ParamsIdle == params = <<>> /\ name = "" /\ found = <<>>
CleanIdle == path = <<>> /\ cleaned = <<>>
RouterIdle == trees = NilTrees /\ config = New /\ call = NoCall /\ ret = NoRet

InitClean == path \in CleanInputs /\ cleaned = <<>> /\ ParamsIdle /\ RouterIdle

\* CleanPath(path)
Clean ==
    /\ cleaned = <<>>
    /\ cleaned' = <<CleanRun(path)>>
    /\ UNCHANGED <<path, params, name, found, trees, config, call, ret>>

\* CleanPath(CleanPath(path))
CleanAgain ==
    /\ Len(cleaned) = 1
    /\ ~cleaned[1].panic
    /\ cleaned' = Append(cleaned, CleanRun(cleaned[1].out))
    /\ UNCHANGED <<path, params, name, found, trees, config, call, ret>>

NextClean == Clean \/ CleanAgain

SpecClean == InitClean /\ [][NextClean]_vars

\* ---------------------------------------------------------- ByName runs
ParamKeys == {"id", "name"}
ParamValues == {"", "1", "2"}
AskedNames == ParamKeys \cup {"missing"}
ParamSet == [Key : ParamKeys, Value : ParamValues]
ParamsInputs == UNION {[1..k -> ParamSet] : k \in 0..MaxParams}

InitParams ==
    /\ params \in ParamsInputs
    /\ name \in AskedNames
    /\ found = <<>>
    /\ CleanIdle
    /\ RouterIdle

\* params.ByName(name)
CallByName ==
    /\ found = <<>>
    /\ found' = <<ByName(params, name)>>
    /\ UNCHANGED <<path, cleaned, params, name, trees, config, call, ret>>

NextParams == CallByName

SpecParams == InitParams /\ [][NextParams]_vars

\* ----------------------------------------------------------- Router runs
Methods == {"GET", "POST", "OPTIONS", "CONNECT"}

\* The paths handed to Handle: two routes, a relative path and the empty path.
HandlePaths == {<<"/", "a">>, <<"/", "a", "/">>, <<"a">>, <<>>}

\* The request paths of ServeHTTP.
RequestPaths ==
    {<<"/">>, <<"/", "a">>, <<"/", "a", "/">>, <<"/", "A">>, <<"/", "/", "a">>, <<"*">>}

\* The paths looked up directly.
LookupPaths == {<<"/", "a">>, <<"/", "a", "/">>, <<"/", "A">>}

\* The handler registered for a route: one of its own for each.
HandleFor(method, rpath) == <<method, rpath>>

\* The number of routes registered, over all methods.
RouteCount(t) ==
    Cardinality(UNION {{<<k, rt.path>> : rt \in TreeOf(t, k).routes} : k \in TreeMethods(t)})

Init ==
    /\ trees = NilTrees
    /\ config \in [{"RedirectTrailingSlash", "RedirectFixedPath",
                    "HandleMethodNotAllowed", "HandleOPTIONS"} -> BOOLEAN]
    /\ call = NoCall
    /\ ret = NoRet
    /\ CleanIdle
    /\ ParamsIdle

\* router.Handle(method, path, handle); a caller may recover from its panic.
DoHandle ==
    \E method \in Methods, rpath \in HandlePaths :
        LET h == Handle(trees, method, rpath, HandleFor(method, rpath)) IN
        /\ RouteCount(h.trees) <= MaxRoutes
        /\ trees' = h.trees
        /\ call' = [op |-> "Handle", method |-> method, path |-> rpath]
        /\ ret' = [panic |-> h.panic]
        /\ UNCHANGED <<config, path, cleaned, params, name, found>>

\* router.Lookup(method, path)
DoLookup ==
    \E method \in Methods, rpath \in LookupPaths :
        LET l == Lookup(trees, method, rpath) IN
        /\ trees' = l.trees
        /\ call' = [op |-> "Lookup", method |-> method, path |-> rpath]
        /\ ret' = [handle |-> l.handle, ps |-> l.ps, tsr |-> l.tsr]
        /\ UNCHANGED <<config, path, cleaned, params, name, found>>

\* router.ServeHTTP(w, req)
DoServeHTTP ==
    \E method \in Methods, rpath \in RequestPaths :
        /\ call' = [op |-> "ServeHTTP", method |-> method, path |-> rpath]
        /\ ret' = ServeHTTP(trees, config, method, rpath)
        /\ UNCHANGED <<trees, config, path, cleaned, params, name, found>>

Next == DoHandle \/ DoLookup \/ DoServeHTTP

Spec == Init /\ [][Next]_vars

\* --------------------------------------------------------------- claims
\* The reference normaliser: split at '/', drop empty and '.' segments, let '..'
\* remove the last kept segment, join behind a leading '/', and keep one trailing
\* '/' when the input ended with '/' or a '.' segment and something was kept.
RECURSIVE SplitFrom(_, _, _, _)
SplitFrom(p, i, cur, acc) ==
    IF i > Len(p) THEN Append(acc, cur)
    ELSE IF p[i] = "/" THEN SplitFrom(p, i + 1, <<>>, Append(acc, cur))
    ELSE SplitFrom(p, i + 1, Append(cur, p[i]), acc)
Split(p) == SplitFrom(p, 1, <<>>, <<>>)

RECURSIVE Keep(_, _, _)
Keep(segs, i, kept) ==
    IF i > Len(segs) THEN kept
    ELSE IF segs[i] = <<>> \/ segs[i] = <<".">> THEN Keep(segs, i + 1, kept)
    ELSE IF segs[i] = <<".", ".">>
         THEN Keep(segs, i + 1,
                   IF kept = <<>> THEN kept ELSE SubSeq(kept, 1, Len(kept) - 1))
    ELSE Keep(segs, i + 1, Append(kept, segs[i]))

RECURSIVE Join(_, _)
Join(kept, i) ==
    IF i > Len(kept) THEN <<>>
    ELSE (IF i > 1 THEN <<"/">> ELSE <<>>) \o kept[i] \o Join(kept, i + 1)

RefNormalize(p) ==
    LET segs == Split(p)
        kept == Keep(segs, 1, <<>>)
        last == segs[Len(segs)]
        trail == Len(p) > 0 /\ (p[Len(p)] = "/" \/ last = <<".">>) /\ kept # <<>>
    IN <<"/">> \o Join(kept, 1) \o (IF trail THEN <<"/">> ELSE <<>>)

\* C1: CleanPath is idempotent: for every input p, the empty string and the
\* strings without a leading '/' included, CleanPath(CleanPath(p)) = CleanPath(p).
C1_Idempotent ==
    Len(cleaned) = 2 => cleaned[2].out = cleaned[1].out

\* C1's case: an input that the first call rewrote, cleaned twice.
C1_Witness ==
    /\ Len(cleaned) = 2
    /\ path # <<>> /\ path[1] # "/"
    /\ cleaned[1].out # path
    /\ Len(cleaned[1].out) > 2

C3_Total ==
    \A i \in 1..Len(cleaned) : ~cleaned[i].panic

\* C3's case: a relative input whose '..' element backtracks in the buffer and
\* whose last element is a lone '.'.
C3_Witness ==
    /\ Len(cleaned) >= 1
    /\ path = <<"a", "/", ".", ".", "/", ".">>
    /\ ~cleaned[1].bufNil
    /\ cleaned[1].out = <<"/">>

\* The inputs that need no rewrite: a leading '/', no empty element between two
\* slashes, no '.' and no '..' element.
NeedsNoRewrite(p) ==
    /\ Len(p) >= 1 /\ p[1] = "/"
    /\ \A i \in 1..(Len(p) - 1) : ~(p[i] = "/" /\ p[i + 1] = "/")
    /\ \A i \in 1..Len(Split(p)) : Split(p)[i] \notin {<<".">>, <<".", ".">>}

\* C4: an input that needs no rewrite is returned as it is, with buf still nil and
\* w = len(p) at the return; the buffer is allocated only when the result differs
\* from the input.
C4_NoRewrite ==
    Len(cleaned) >= 1 =>
        /\ NeedsNoRewrite(path) =>
              /\ cleaned[1].out = path
              /\ cleaned[1].bufNil
              /\ cleaned[1].w = Len(path)
        /\ ~cleaned[1].bufNil => cleaned[1].out # path

\* C4's case: "/a/b" went through CleanPath without a buffer.
C4_Witness ==
    /\ Len(cleaned) >= 1
    /\ path = <<"/", "a", "/", "b">>
    /\ cleaned[1].bufNil /\ cleaned[1].out = path

\* C9: ByName returns the Value of the first pair whose Key is the name, and ""
\* when no pair has it; of several pairs with the key only the earliest counts.
C9_FirstMatch ==
    found # <<>> =>
        LET hits == {i \in 1..Len(params) : params[i].Key = name} IN
        IF hits = {} THEN found[1] = ""
        ELSE \E i \in hits : (\A j \in hits : i <= j) /\ found[1] = params[i].Value

\* C9's case: two pairs share the key and carry different values.
C9_Witness ==
    /\ found # <<>>
    /\ Len(params) >= 2
    /\ \E i, j \in 1..Len(params) :
          /\ i < j /\ params[i].Key = name /\ params[j].Key = name
          /\ params[i].Value # params[j].Value
          /\ found[1] = params[i].Value

\* C5: Handle called with a path that does not begin with '/' panics and leaves
\* the method-to-tree map as it was: no tree is created, none is touched.
C5_HandleRejects ==
    [][(call'.op = "Handle" /\ Rd(call'.path, 0) # "/")
          => (ret'.panic /\ trees' = trees)]_vars

\* C5's case: a relative path was refused by a router that already holds a tree.
C5_Witness ==
    /\ call.op = "Handle" /\ call.path = <<"a">> /\ call.method = "POST"
    /\ ret.panic
    /\ TreeMethods(trees) = {"GET"}

\* C6: ServeHTTP calls the case-insensitive lookup only after the exact lookup of
\* the request's method and path gave no handler, and uses what it finds as a
\* redirect target only: a route handler is invoked only when the exact lookup
\* returned it, and a request that is redirected invokes none.
C6_FallbackOnlyRedirects ==
    call.op = "ServeHTTP" =>
        LET exact == Lookup(trees, call.method, call.path) IN
        /\ ret.fallback => exact.handle = NilHandle
        /\ ret.kind = "handler" => ret.handle # NilHandle
        /\ ret.handle # NilHandle => ret.kind = "handler" /\ ret.handle = exact.handle
        /\ ret.kind = "redirect" => ret.handle = NilHandle

\* C6's case: /A missed, the fallback found /a, and the answer is a redirect there.
C6_Witness ==
    /\ call.op = "ServeHTTP" /\ call.path = <<"/", "A">>
    /\ ret.fallback /\ ret.kind = "redirect" /\ ret.location = <<"/", "a">>

\* A route with the path is registered under method k.
HasRoute(k, rpath) == \E rt \in TreeOf(trees, k).routes : rt.path = rpath

\* The request was neither served by a handler nor redirected, with
\* HandleMethodNotAllowed on.
Unanswered ==
    /\ call.op = "ServeHTTP"
    /\ config.HandleMethodNotAllowed
    /\ ret.kind \notin {"handler", "redirect"}

C8_TrailingSlashRedirect ==
    (call.op = "ServeHTTP" /\ config.RedirectTrailingSlash
        /\ call.method # "CONNECT" /\ call.path # <<"/">>) =>
        LET exact == Lookup(trees, call.method, call.path)
            n == Len(call.path)
        IN /\ (exact.handle = NilHandle /\ exact.tsr) =>
                 /\ ret.kind = "redirect"
                 /\ ret.location = IF call.path[n] = "/"
                                   THEN SubSeq(call.path, 1, n - 1)
                                   ELSE Append(call.path, "/")
                 /\ ret.code = IF call.method = "GET" THEN 301 ELSE 307
           /\ (call.path = <<"/", "a", "/">>
                 /\ {rt.path : rt \in TreeOf(trees, call.method).routes} = {<<"/", "a">>}) =>
                 ret.kind = "redirect" /\ ret.location = <<"/", "a">>

\* C8's case: POST /a/ with only /a registered is redirected to /a with 307.
C8_Witness ==
    /\ call.op = "ServeHTTP" /\ config.RedirectTrailingSlash
    /\ call.method = "POST" /\ call.path = <<"/", "a", "/">>
    /\ {rt.path : rt \in TreeOf(trees, "POST").routes} = {<<"/", "a">>}
    /\ ret.kind = "redirect" /\ ret.location = <<"/", "a">> /\ ret.code = 307

\* C10: after any Handle calls, none included, Lookup gives no handler, no params
\* and no redirect recommendation for a method under which Handle was never
\* called, and Lookup never changes the map.  A method gets a tree only by a Handle
\* call under it; Lookup finds nothing for a method without a tree; and a Lookup
\* step leaves the map as it was.
C10_LookupUnregistered ==
    /\ []((call.op = "Lookup" /\ TreeOf(trees, call.method).isNil)
            => ret = [handle |-> NilHandle, ps |-> NilParams, tsr |-> FALSE])
    /\ [][/\ call'.op = "Lookup" => trees' = trees
          /\ \A k \in TreeMethods(trees') \ TreeMethods(trees) :
                call'.op = "Handle" /\ call'.method = k]_vars

\* C10's case: a Lookup under POST on a router that has routes under GET only.
C10_Witness ==
    /\ call.op = "Lookup" /\ call.method = "POST" /\ call.path = <<"/", "a">>
    /\ HasRoute("GET", <<"/", "a">>)
    /\ TreeMethods(trees) = {"GET"}
    /\ ret.handle = NilHandle /\ ~ret.tsr

====
